---- MODULE Spec2Model ----
(***************************************************************************)
(* A model of trusttunel_bot: the credential store (credentials.py), the   *)
(* reload notifier (service.py), user management (user_management.py) and  *)
(* the chat session controller (bot.py).                                   *)
(*                                                                         *)
(* Strings are sequences of characters (one-character TLA+ strings), so    *)
(* that escaping, stripping and prefix tests are computed, not assumed.    *)
(* Python's None is "None" where the other values are atoms (a mode, an    *)
(* exception class, a setting) and NoneStr where they are strings.  An     *)
(* exception is the name of its class; None means that the call returned.  *)
(***************************************************************************)
EXTENDS Integers, Sequences, FiniteSets, TLC

VARIABLES
    config,     \* BotConfig, fixed when the process starts
    store,      \* content of config.credentials_file, as save_credentials wrote it
    states,     \* StateStore._states   : dict chat_id -> ChatState
    messages,   \* StateStore._messages : dict chat_id -> message_id
    task,       \* the handler coroutines the dispatcher is running
    call,       \* SpecUM only: the last direct call of the user-management API
    serial,     \* history: the mutations that wrote the file, applied in that order
    escaped,    \* history: the exception that left a handler in the last step
    stats,      \* history: menu messages sent and edits failed, when counted
    client_toml \* content of <tempdir>/trusttunnel_client.toml

vars == <<config, store, states, messages, task, call, serial, escaped, stats,
          client_toml>>

None == "None"
NoneStr == <<"None">>

\* No client config has been written yet.
NoFile == [username |-> NoneStr]

(***************************************************************************)
(* Bounds of the model.                                                    *)
(***************************************************************************)
MaxUsers == 3       \* add_user is not called on a store of this many records
MaxTasks == 2       \* handler coroutines in flight at once

Names == {<<"a">>, <<"b">>}
Seeds == {"x", "y"}

(***************************************************************************)
(* credentials.py                                                          *)
(***************************************************************************)
RECURSIVE escape(_)
escape(value) ==
    IF value = <<>> THEN <<>>
    ELSE LET c == Head(value)
         IN  (IF c = "\\" THEN <<"\\", "\\">>
              ELSE IF c = "\"" THEN <<"\\", "\"">>
              ELSE <<c>>) \o escape(Tail(value))

\* tomllib on the text between the quotes of  key = "..." : a basic string
\* must not hold a raw newline or a raw quote, and a backslash starts an escape.
RECURSIVE toml_basic_string(_)
toml_basic_string(text) ==
    IF text = <<>> THEN [ok |-> TRUE, value |-> <<>>]
    ELSE LET c == Head(text)
         IN  IF c = "\n" \/ c = "\"" THEN [ok |-> FALSE, value |-> <<>>]
             ELSE IF c = "\\"
             THEN IF Len(text) >= 2 /\ text[2] \in {"\\", "\""}
                  THEN LET r == toml_basic_string(Tail(Tail(text)))
                       IN  [ok |-> r.ok, value |-> <<text[2]>> \o r.value]
                  ELSE IF Len(text) >= 2 /\ text[2] \in {"n", "t"}
                  THEN LET r == toml_basic_string(Tail(Tail(text)))
                       IN  [ok |-> r.ok,
                            value |-> <<IF text[2] = "n" THEN "\n" ELSE "\t">> \o r.value]
                  ELSE [ok |-> FALSE, value |-> <<>>]
             ELSE LET r == toml_basic_string(Tail(text))
                  IN  [ok |-> r.ok, value |-> <<c>> \o r.value]

ClientCredential(username, password) ==
    [username |-> username, password |-> password]

\* The file is the sequence of its [[client]] tables, each holding the text
\* written between the quotes of its username and password lines.
save_credentials(clients) ==
    [i \in 1..Len(clients) |->
        [username |-> escape(clients[i].username),
         password |-> escape(clients[i].password)]]

load_credentials(file) ==
    LET parsed == [i \in 1..Len(file) |->
                     [username |-> toml_basic_string(file[i].username),
                      password |-> toml_basic_string(file[i].password)]]
    IN  IF \E i \in 1..Len(file) : ~parsed[i].username.ok \/ ~parsed[i].password.ok
        THEN [raised |-> "ValueError", msg |-> "TOMLDecodeError", clients |-> <<>>]
        ELSE IF \E i \in 1..Len(file) :
                    parsed[i].username.value = <<>> \/ parsed[i].password.value = <<>>
        THEN [raised |-> "ValueError", msg |-> "Each client must have username and password",
              clients |-> <<>>]
        ELSE [raised |-> None, msg |-> None,
              clients |-> [i \in 1..Len(file) |->
                             ClientCredential(parsed[i].username.value,
                                              parsed[i].password.value)]]

(***************************************************************************)
(* service.py                                                              *)
(*                                                                         *)
(* env.post is what request.urlopen does: "ok", "URLError" (connection     *)
(* refused, unreachable), "HTTPError" (a 4xx/5xx answer) or "TimeoutError" *)
(* (the server accepts the connection and does not answer within 5 s:      *)
(* urllib raises the socket's TimeoutError, an OSError that is no          *)
(* URLError).  env.restart is what subprocess.run(["systemctl", ...],      *)
(* check=False) does: "exit0", "exit1", or "FileNotFoundError" when the    *)
(* host has no systemctl.                                                  *)
(***************************************************************************)
PostOutcomes == {"ok", "URLError", "HTTPError", "TimeoutError"}
RestartOutcomes == {"exit0", "exit1", "FileNotFoundError"}
Envs == [post : PostOutcomes, restart : RestartOutcomes]

systemctl_restart(env) ==
    IF env.restart = "FileNotFoundError"
    THEN [raised |-> "FileNotFoundError", used_hot_reload |-> FALSE, restarted |-> TRUE]
    ELSE [raised |-> None, used_hot_reload |-> FALSE, restarted |-> TRUE]

reload_credentials(reload_endpoint, env) ==
    IF reload_endpoint # None
    THEN IF env.post = "ok"
         THEN [raised |-> None, used_hot_reload |-> TRUE, restarted |-> FALSE,
               posted |-> TRUE]
         ELSE IF env.post \in {"URLError", "HTTPError"}
         THEN systemctl_restart(env) @@ [posted |-> TRUE]
         ELSE [raised |-> env.post, used_hot_reload |-> FALSE, restarted |-> FALSE,
               posted |-> TRUE]
    ELSE systemctl_restart(env) @@ [posted |-> FALSE]

(***************************************************************************)
(* user_management.py                                                      *)
(* Each function returns the file it leaves behind with what it returned   *)
(* or raised.                                                              *)
(***************************************************************************)
usernames_of(clients) == [i \in 1..Len(clients) |-> clients[i].username]

list_users(file) ==
    LET loaded == load_credentials(file)
    IN  [raised |-> loaded.raised, msg |-> loaded.msg,
         usernames |-> usernames_of(loaded.clients)]

\* The file write and the reload steps of a call, in the order they are made.
NoReload ==
    [used_hot_reload |-> FALSE, restarted |-> FALSE, posted |-> FALSE, effects |-> <<>>]

reload_effects(result) ==
    (IF result.posted THEN <<"POST">> ELSE <<>>)
    \o (IF result.restarted THEN <<"systemctl restart">> ELSE <<>>)

(***************************************************************************)
(* Faulty variants of add_user and delete_user, against which the          *)
(* properties of the store are tested.                                     *)
(***************************************************************************)
\* add_user without the test for an existing username
add_user_unchecked(cfg, file, username, password, env) ==
    [raised |-> reload_credentials(cfg.reload_endpoint, env).raised, msg |-> None,
     file |-> save_credentials(Append(load_credentials(file).clients,
                                      ClientCredential(username, password))),
     saved |-> TRUE,
     used_hot_reload |-> reload_credentials(cfg.reload_endpoint, env).used_hot_reload,
     restarted |-> reload_credentials(cfg.reload_endpoint, env).restarted,
     posted |-> reload_credentials(cfg.reload_endpoint, env).posted,
     effects |-> <<"save_credentials">>
                 \o reload_effects(reload_credentials(cfg.reload_endpoint, env))]

\* add_user writing the new record alone, as if it had loaded an empty file
add_user_overwrite(cfg, file, username, password, env) ==
    IF \E i \in 1..Len(file) : load_credentials(file).clients[i].username = username
    THEN [raised |-> "ValueError", msg |-> "already exists", file |-> file,
          saved |-> FALSE] @@ NoReload
    ELSE [raised |-> reload_credentials(cfg.reload_endpoint, env).raised, msg |-> None,
          file |-> save_credentials(<<ClientCredential(username, password)>>),
          saved |-> TRUE,
          used_hot_reload |-> reload_credentials(cfg.reload_endpoint, env).used_hot_reload,
          restarted |-> reload_credentials(cfg.reload_endpoint, env).restarted,
          posted |-> reload_credentials(cfg.reload_endpoint, env).posted,
          effects |-> <<"save_credentials">>
                      \o reload_effects(reload_credentials(cfg.reload_endpoint, env))]

\* delete_user dropping the last record when the username is present
delete_user_last(cfg, file, username, env) ==
    IF \A i \in 1..Len(file) : load_credentials(file).clients[i].username # username
    THEN [raised |-> "ValueError", msg |-> "not found", file |-> file,
          saved |-> FALSE] @@ NoReload
    ELSE [raised |-> reload_credentials(cfg.reload_endpoint, env).raised, msg |-> None,
          file |-> save_credentials(SubSeq(load_credentials(file).clients, 1,
                                           Len(file) - 1)),
          saved |-> TRUE,
          used_hot_reload |-> reload_credentials(cfg.reload_endpoint, env).used_hot_reload,
          restarted |-> reload_credentials(cfg.reload_endpoint, env).restarted,
          posted |-> reload_credentials(cfg.reload_endpoint, env).posted,
          effects |-> <<"save_credentials">>
                      \o reload_effects(reload_credentials(cfg.reload_endpoint, env))]

\* add_user triggering the reload before it writes the file
add_user_reloads_first(cfg, file, username, password, env) ==
    LET loaded == load_credentials(file)
    IN  IF loaded.raised # None
        THEN [raised |-> loaded.raised, msg |-> loaded.msg, file |-> file,
              saved |-> FALSE] @@ NoReload
        ELSE IF \E i \in 1..Len(loaded.clients) : loaded.clients[i].username = username
        THEN [raised |-> "ValueError", msg |-> "already exists", file |-> file,
              saved |-> FALSE] @@ NoReload
        ELSE LET credentials == Append(loaded.clients, ClientCredential(username, password))
                 result == reload_credentials(cfg.reload_endpoint, env)
             IN  [raised |-> result.raised, msg |-> None,
                  file |-> save_credentials(credentials), saved |-> TRUE,
                  used_hot_reload |-> result.used_hot_reload,
                  restarted |-> result.restarted, posted |-> result.posted,
                  effects |-> reload_effects(result) \o <<"save_credentials">>]

add_user(cfg, file, username, password, env) ==
    LET loaded == load_credentials(file)
    IN  IF loaded.raised # None
        THEN [raised |-> loaded.raised, msg |-> loaded.msg, file |-> file,
              saved |-> FALSE] @@ NoReload
        ELSE IF \E i \in 1..Len(loaded.clients) : loaded.clients[i].username = username
        THEN [raised |-> "ValueError", msg |-> "already exists", file |-> file,
              saved |-> FALSE] @@ NoReload
        ELSE LET credentials == Append(loaded.clients, ClientCredential(username, password))
                 result == reload_credentials(cfg.reload_endpoint, env)
             IN  [raised |-> result.raised, msg |-> None,
                  file |-> save_credentials(credentials), saved |-> TRUE,
                  used_hot_reload |-> result.used_hot_reload,
                  restarted |-> result.restarted, posted |-> result.posted,
                  effects |-> <<"save_credentials">> \o reload_effects(result)]

delete_user(cfg, file, username, env) ==
    LET loaded == load_credentials(file)
        remaining == SelectSeq(loaded.clients, LAMBDA client : client.username # username)
    IN  IF loaded.raised # None
        THEN [raised |-> loaded.raised, msg |-> loaded.msg, file |-> file,
              saved |-> FALSE] @@ NoReload
        ELSE IF Len(remaining) = Len(loaded.clients)
        THEN [raised |-> "ValueError", msg |-> "not found", file |-> file,
              saved |-> FALSE] @@ NoReload
        ELSE LET result == reload_credentials(cfg.reload_endpoint, env)
             IN  [raised |-> result.raised, msg |-> None,
                  file |-> save_credentials(remaining), saved |-> TRUE,
                  used_hot_reload |-> result.used_hot_reload,
                  restarted |-> result.restarted, posted |-> result.posted,
                  effects |-> <<"save_credentials">> \o reload_effects(result)]

\* secrets.token_urlsafe(nbytes): nbytes random bytes in unpadded base64.
token_urlsafe(nbytes, seed) == [i \in 1..((4 * nbytes + 2) \div 3) |-> seed]

generate_password(seed) == token_urlsafe(12, seed)

Passwords == {generate_password(s) : s \in Seeds}

(***************************************************************************)
(* The stores the program starts from: files save_credentials wrote, with  *)
(* pairwise distinct usernames.                                            *)
(***************************************************************************)
Distinct(seq) == \A i, j \in 1..Len(seq) : i # j => seq[i] # seq[j]

ClientLists ==
    UNION {{cl \in [1..n -> [username : Names, password : Passwords]] :
                Distinct(usernames_of(cl))} : n \in 0..Cardinality(Names)}

InitStores == {save_credentials(cl) : cl \in ClientLists}

\* config.py, BotConfig.  run_bot refuses an empty admin_ids.
BotConfig(reload_endpoint, vpn_config, hosts_config, endpoint_public_address, rules_file) ==
    [admin_ids |-> {1},
     reload_endpoint |-> reload_endpoint,
     vpn_config |-> vpn_config,
     hosts_config |-> hosts_config,
     endpoint_public_address |-> endpoint_public_address,
     dns_upstreams |-> <<>>,
     rules_file |-> rules_file]

FullConfig == BotConfig("http://reload", "vpn.toml", "hosts.toml", "198.51.100.1", "rules.toml")
BareConfig == BotConfig(None, None, None, None, None)

Configs == {FullConfig, BareConfig}

EmptyDict == [x \in {} |-> None]
Free == [pc |-> "free"]

(***************************************************************************)
(* SpecUM: the user-management API called directly, one call at a time.    *)
(***************************************************************************)
NoCall == [op |-> "none"]

InitUM ==
    /\ config \in Configs
    /\ store \in InitStores
    /\ states = EmptyDict
    /\ messages = EmptyDict
    /\ task = [t \in 1..MaxTasks |-> Free]
    /\ call = NoCall
    /\ serial = <<>>
    /\ escaped = [exc |-> None, saved |-> FALSE]
    /\ stats = [on |-> FALSE]
    /\ client_toml = NoFile

CallAddUser(username, password, env) ==
    /\ Len(store) < MaxUsers
    /\ \E r \in {add_user(config, store, username, password, env)} :
           /\ store' = r.file
           /\ call' = [op |-> "add_user", username |-> username, password |-> password,
                       before |-> store, raised |-> r.raised, msg |-> r.msg,
                       saved |-> r.saved, used_hot_reload |-> r.used_hot_reload,
                       restarted |-> r.restarted, posted |-> r.posted,
                       effects |-> r.effects, env |-> env]
    /\ UNCHANGED <<config, states, messages, task, serial, escaped, stats, client_toml>>

CallDeleteUser(username, env) ==
    /\ \E r \in {delete_user(config, store, username, env)} :
           /\ store' = r.file
           /\ call' = [op |-> "delete_user", username |-> username, password |-> None,
                       before |-> store, raised |-> r.raised, msg |-> r.msg,
                       saved |-> r.saved, used_hot_reload |-> r.used_hot_reload,
                       restarted |-> r.restarted, posted |-> r.posted,
                       effects |-> r.effects, env |-> env]
    /\ UNCHANGED <<config, states, messages, task, serial, escaped, stats, client_toml>>

CallReload(env) ==
    /\ \E r \in {reload_credentials(config.reload_endpoint, env)} :
           call' = [op |-> "reload_credentials", username |-> None, password |-> None,
                    before |-> store, raised |-> r.raised, msg |-> None,
                    saved |-> FALSE, used_hot_reload |-> r.used_hot_reload,
                    restarted |-> r.restarted, posted |-> r.posted,
                    effects |-> reload_effects(r), env |-> env]
    /\ UNCHANGED <<config, store, states, messages, task, serial, escaped, stats, client_toml>>

NextUM ==
    \/ \E u \in Names, p \in Passwords, env \in Envs : CallAddUser(u, p, env)
    \/ \E u \in Names, env \in Envs : CallDeleteUser(u, env)
    \/ \E env \in Envs : CallReload(env)

SpecUM == InitUM /\ [][NextUM]_vars

(***************************************************************************)
(* bot.py: the chat session controller.                                    *)
(*                                                                         *)
(* A handler coroutine runs without interruption from one await to the     *)
(* next: user_management and the config generator are plain functions, so *)
(* a handler is suspended only in a Bot API call.  A task holds the calls  *)
(* and the synchronous steps its handler has still to make (prog); the     *)
(* head of prog is the Bot API call it is suspended in.                    *)
(***************************************************************************)
Chats == {101}
UserIds == {1, 2}
MaxMsgId == 2        \* message ids of a chat, reused in turn

\* Message.from_user / CallbackQuery.from_user
from_user(uid) ==
    [id |-> uid,
     username |-> IF uid = 1 THEN <<"a">> ELSE IF uid = 2 THEN <<"b">> ELSE NoneStr]

truthy(s) == s # NoneStr /\ s # <<>>

ChatState == [mode |-> None, pending_username |-> NoneStr]

\* get_state handing out a fresh ChatState every time
get_state_resets(sts, chat_id) ==
    [c \in DOMAIN sts \cup {chat_id} |-> IF c = chat_id THEN ChatState ELSE sts[c]]

get_state(sts, chat_id) ==
    IF chat_id \in DOMAIN sts THEN sts
    ELSE [c \in DOMAIN sts \cup {chat_id} |-> IF c = chat_id THEN ChatState ELSE sts[c]]

clear_state(sts, chat_id) == [c \in DOMAIN sts \ {chat_id} |-> sts[c]]

set_message_id(ms, chat_id, message_id) ==
    [c \in DOMAIN ms \cup {chat_id} |-> IF c = chat_id THEN message_id ELSE ms[c]]

\* None and 0 are the same to _upsert_message's "if message_id:".
get_message_id(ms, chat_id) == IF chat_id \in DOMAIN ms THEN ms[chat_id] ELSE 0

mode_of(sts, chat_id) == IF chat_id \in DOMAIN sts THEN sts[chat_id].mode ELSE None

is_admin(cfg, user_id) ==
    IF cfg.admin_ids = {} THEN FALSE ELSE user_id \in cfg.admin_ids

\* callback_data is head, or head ":" arg.
Data(head, colon, arg) == [head |-> head, colon |-> colon, arg |-> arg]
Button(head) == Data(head, FALSE, <<>>)

menu_keyboard(admin) ==
    (IF admin
     THEN {Button("add_user"), Button("delete_user"), Button("admin_config"),
           Button("show_rules")}
     ELSE {}) \cup {Button("my_config")}

render_menu(admin) == IF admin THEN "menu: Administrator" ELSE "menu: User"

\* One step of a handler: a Bot API call (awaited: callback.answer,
\* message.answer, bot.edit_message_text, bot.send_message, bot.send_document,
\* and upsert.send_message for the send_message of _upsert_message) or a
\* synchronous step (clear_state, _upsert_message and _send_configs up to their
\* first await).
Op(op, text, kb, arg) == [op |-> op, text |-> text, kb |-> kb, arg |-> arg]

upsert_message(text, keyboard) == Op("_upsert_message", text, keyboard, <<>>)

show_menu(admin) == upsert_message(render_menu(admin), menu_keyboard(admin))

callback_answer(text) == Op("callback.answer", text, {}, <<>>)

message_answer(text, arg) == Op("message.answer", text, {}, arg)

ClearState == Op("clear_state", "", {}, <<>>)

\* _normalize_username: str.strip(), one leading "@" dropped.
Whitespace == {" ", "\t", "\n"}

RECURSIVE lstrip(_)
lstrip(text) ==
    IF text # <<>> /\ Head(text) \in Whitespace THEN lstrip(Tail(text)) ELSE text

RECURSIVE rstrip(_)
rstrip(text) ==
    IF text # <<>> /\ text[Len(text)] \in Whitespace
    THEN rstrip(SubSeq(text, 1, Len(text) - 1))
    ELSE text

strip(text) == rstrip(lstrip(text))

normalize_username(text) ==
    LET stripped == strip(text)
        cleaned == IF stripped # <<>> /\ Head(stripped) = "@" THEN Tail(stripped)
                   ELSE stripped
    IN  IF cleaned = <<>> THEN NoneStr
        ELSE IF \E i \in 1..Len(cleaned) : cleaned[i] = " " THEN NoneStr
        ELSE cleaned

\* A Message: text (NoneStr when it has none) and forward_from.
NoForward == [present |-> FALSE, id |-> 0, username |-> NoneStr]
Forward(id, username) == [present |-> TRUE, id |-> id, username |-> username]

extract_username(message) ==
    IF message.forward_from.present /\ truthy(message.forward_from.username)
    THEN message.forward_from.username
    ELSE IF message.forward_from.present
    THEN <<"u", "s", "e", "r", "_", ToString(message.forward_from.id)>>
    ELSE normalize_username(IF message.text = NoneStr THEN <<>> ELSE message.text)

(***************************************************************************)
(* cli_config.py and endpoint.py on an endpoint descriptor.                *)
(*                                                                         *)
(* A descriptor gives, for each field, what _get_value returns: NoneStr    *)
(* when the key is nowhere, <<>> for an empty string or list, or a value.  *)
(* A config is the sequence of its lines, each a key with its values.      *)
(***************************************************************************)
RequiredFields == {"hostname", "addresses", "username", "password", "protocol"}

FieldValues == {NoneStr, <<>>, <<"v">>}

Descriptors ==
    [hostname : FieldValues, addresses : FieldValues, username : FieldValues,
     password : FieldValues, protocol : FieldValues, certificate : {NoneStr, <<"c">>}]

FullDescriptor ==
    [hostname |-> <<"v">>, addresses |-> <<"v">>, username |-> <<"v">>,
     password |-> <<"v">>, protocol |-> <<"v">>, certificate |-> <<"c">>]

Line(key, values) == [key |-> key, values |-> values]

\* value in (None, "", [])
missing_fields(descriptor) ==
    {name \in RequiredFields : descriptor[name] = NoneStr \/ descriptor[name] = <<>>}

format_list(values) == [i \in 1..Len(values) |-> escape(values[i])]

\* line.strip().startswith("dns_upstreams")
is_dns_line(line) == line.key = "dns_upstreams"

\* _merge_dns_upstreams that always appends the rendered line
merge_dns_upstreams_appends(content, dns_upstreams) ==
    Append(content, Line("dns_upstreams", format_list(dns_upstreams)))

merge_dns_upstreams(content, dns_upstreams) ==
    LET rendered == Line("dns_upstreams", format_list(dns_upstreams))
        found == {i \in 1..Len(content) : is_dns_line(content[i])}
    IN  IF found # {}
        THEN LET index == CHOOSE i \in found : \A j \in found : i <= j
             IN  [content EXCEPT ![index] = rendered]
        ELSE Append(content, rendered)

\* What running trusttunnel_client setup_wizard does: it cannot be started
\* (FileNotFoundError), exits non-zero, or exits zero having written content
\* (or nothing) to the output path.
NoContent == <<>>

WizardContent(dns_lines) ==
    <<Line("vpn_mode", <<>>)>> \o dns_lines
    \o <<Line("[endpoint]", <<>>), Line("hostname", <<<<"v">>>>)>>

WizardEnvs ==
    {[run |-> "FileNotFoundError", exists |-> FALSE, content |-> NoContent],
     [run |-> "exit1", exists |-> FALSE, content |-> NoContent],
     [run |-> "exit0", exists |-> FALSE, content |-> NoContent],
     [run |-> "exit0", exists |-> TRUE, content |-> WizardContent(<<>>)],
     [run |-> "exit0", exists |-> TRUE,
      content |-> WizardContent(<<Line("dns_upstreams", <<<<"9">>>>)>>)]}

NoResult ==
    [raised |-> None, missing |-> {}, content |-> NoContent, written |-> FALSE,
     used_setup_wizard |-> FALSE, skip_verification |-> FALSE, returned |-> FALSE]

try_setup_wizard(wenv) ==
    IF wenv.run = "FileNotFoundError" THEN [NoResult EXCEPT !.raised = "FileNotFoundError"]
    ELSE IF wenv.run # "exit0" \/ ~wenv.exists THEN NoResult
    ELSE [NoResult EXCEPT !.content = wenv.content, !.written = TRUE,
                          !.used_setup_wizard = TRUE, !.returned = TRUE]

build_client_config_from_endpoint(descriptor, dns_upstreams) ==
    IF missing_fields(descriptor) # {}
    THEN [NoResult EXCEPT !.raised = "ValueError", !.missing = missing_fields(descriptor)]
    ELSE [NoResult EXCEPT
             !.returned = TRUE,
             !.skip_verification = ~truthy(descriptor.certificate),
             !.content =
                 <<Line("vpn_mode", <<>>), Line("killswitch_enabled", <<>>)>>
                 \o (IF dns_upstreams # <<>>
                     THEN <<Line("dns_upstreams", format_list(dns_upstreams))>> ELSE <<>>)
                 \o <<Line("[endpoint]", <<>>),
                      Line("hostname", <<escape(descriptor.hostname)>>),
                      Line("addresses", format_list(<<descriptor.addresses>>)),
                      Line("username", <<escape(descriptor.username)>>),
                      Line("password", <<escape(descriptor.password)>>),
                      Line("upstream_protocol", <<escape(descriptor.protocol)>>)>>
                 \o (IF truthy(descriptor.certificate)
                     THEN <<Line("certificate", <<descriptor.certificate>>)>>
                     ELSE <<Line("skip_verification", <<>>)>>)
                 \o <<Line("[listener]", <<>>), Line("[listener.tun]", <<>>),
                      Line("bound_if", <<>>), Line("included_routes", <<>>),
                      Line("excluded_routes", <<>>), Line("mtu_size", <<>>),
                      Line("change_system_dns", <<>>)>>]

generate_client_config(descriptor, prefer_setup_wizard, dns_upstreams, wenv) ==
    LET wizard_result == IF prefer_setup_wizard THEN try_setup_wizard(wenv) ELSE NoResult
        built == build_client_config_from_endpoint(descriptor, dns_upstreams)
    IN  IF wizard_result.raised # None THEN wizard_result
        ELSE IF wizard_result.returned
        THEN IF dns_upstreams # <<>>
             THEN [wizard_result EXCEPT
                      !.content = merge_dns_upstreams(wizard_result.content, dns_upstreams)]
             ELSE wizard_result
        ELSE IF built.raised # None
        \* the wizard may have left a file; generate_client_config wrote none
        THEN built
        ELSE [built EXCEPT !.written = TRUE]

build_connection_profile(descriptor) ==
    IF missing_fields(descriptor) # {}
    THEN [raised |-> "ValueError", missing |-> missing_fields(descriptor)]
    ELSE [raised |-> None, missing |-> {}]

(***************************************************************************)
(* rules.py, endpoint.py, cli_config.py as the bot uses them: what the     *)
(* files and the external commands do is the environment's choice (genv).  *)
(***************************************************************************)
GenEnvs ==
    [rules : {"ok", "ValueError"},               \* load_rules on rules.toml
     vpn : {"ok", "ValueError"},                 \* _validate_vpn_config_paths
     cmd : {"exit0", "exit1", "TimeoutExpired"}, \* trusttunnel_endpoint
     stderr_len : {0, 5000},                     \* length of its standard error
     wizard : {"ok", "failed", "FileNotFoundError"},  \* trusttunnel_client setup_wizard
     descriptor : {"complete", "incomplete"}]    \* required fields of its output

NominalGenEnv ==
    [rules |-> "ok", vpn |-> "ok", cmd |-> "exit0", stderr_len |-> 0,
     wizard |-> "ok", descriptor |-> "complete"]

load_rules_summary(cfg, genv) ==
    IF cfg.rules_file = None
    THEN [raised |-> None, text |-> "rules: file not configured"]
    ELSE IF genv.rules = "ValueError"
    THEN [raised |-> "ValueError", text |-> ""]
    ELSE [raised |-> None, text |-> "rules: summary"]

ensure_endpoint_settings(cfg) ==
    IF cfg.vpn_config = None \/ cfg.hosts_config = None
            \/ cfg.endpoint_public_address = None
    THEN "ValueError" ELSE None

run_command_safely(genv) ==
    IF genv.cmd = "TimeoutExpired" THEN "TimeoutExpired"
    ELSE IF genv.cmd # "exit0" THEN "RuntimeError"
    ELSE None

generate_endpoint_config(cfg, username, genv) ==
    IF ensure_endpoint_settings(cfg) # None
    THEN [raised |-> ensure_endpoint_settings(cfg), invoked |-> FALSE, written |-> FALSE]
    ELSE IF genv.vpn # "ok"
    THEN [raised |-> genv.vpn, invoked |-> FALSE, written |-> FALSE]
    ELSE [raised |-> run_command_safely(genv), invoked |-> TRUE,
          written |-> run_command_safely(genv) = None]

\* The descriptor that trusttunnel_endpoint printed, and what the wizard does.
DescriptorOf(genv) ==
    IF genv.descriptor = "complete" THEN FullDescriptor
    ELSE [FullDescriptor EXCEPT !.password = NoneStr]

WizardOf(genv) ==
    IF genv.wizard = "ok"
    THEN [run |-> "exit0", exists |-> TRUE, content |-> WizardContent(<<>>)]
    ELSE IF genv.wizard = "failed"
    THEN [run |-> "exit1", exists |-> FALSE, content |-> NoContent]
    ELSE [run |-> "FileNotFoundError", exists |-> FALSE, content |-> NoContent]

generate_client_config_from_bot_config(cfg, genv) ==
    generate_client_config(DescriptorOf(genv), TRUE, cfg.dns_upstreams, WizardOf(genv)).raised

\* The client config that generate_client_config leaves at its output path,
\* <tempdir>/trusttunnel_client.toml whatever the username: the config of the
\* username when the wizard or the template wrote it, NoFile when neither did.
client_config_written(cfg, username, genv) ==
    IF generate_client_config_from_bot_config(cfg, genv) = None
    THEN [username |-> username] ELSE NoFile

max_len == 3900

\* _send_error on "generation error: <exc>"; a RuntimeError's text holds the
\* command's standard error.
send_error(raised, genv) ==
    <<Op("bot.send_message", "generation error", {}, <<>>)>>
    \o (IF 60 + (IF raised = "RuntimeError" THEN genv.stderr_len ELSE 0) > max_len
        THEN <<Op("bot.send_document", "trusttunnel_error.txt", {}, <<>>)>>
        ELSE <<>>)

\* _send_configs up to its first await: the calls it will make, or what it raises.
send_configs(cfg, username, genv) ==
    IF ~truthy(username)
    THEN [raised |-> None, written |-> NoFile,
          ops |-> <<Op("bot.send_message", "no username", {}, <<>>)>>]
    ELSE LET endpoint == generate_endpoint_config(cfg, username, genv)
             raised == IF endpoint.raised # None THEN endpoint.raised
                       ELSE IF generate_client_config_from_bot_config(cfg, genv) # None
                       THEN generate_client_config_from_bot_config(cfg, genv)
                       ELSE build_connection_profile(DescriptorOf(genv)).raised
             written == IF endpoint.raised # None THEN NoFile
                        ELSE client_config_written(cfg, username, genv)
         IN  IF raised \in {"RuntimeError", "ValueError"}
             THEN [raised |-> None, written |-> written, ops |-> send_error(raised, genv)]
             ELSE IF raised # None
             THEN [raised |-> raised, written |-> written, ops |-> <<>>]
             ELSE [raised |-> None, written |-> written,
                   ops |-> <<Op("bot.send_document", "client config", {}, <<username>>),
                             Op("bot.send_message", "connection profile", {},
                                <<username>>)>>]

SendConfigs(username) == Op("_send_configs", "", {}, <<username>>)

(***************************************************************************)
(* Pagination of the user list.                                            *)
(***************************************************************************)
USER_LIST_PAGE_SIZE == 10

Max(a, b) == IF a > b THEN a ELSE b
Min(a, b) == IF a < b THEN a ELSE b

DigitValue(c) ==
    CASE c = "0" -> 0 [] c = "1" -> 1 [] c = "2" -> 2 [] c = "3" -> 3 [] c = "4" -> 4
      [] c = "5" -> 5 [] c = "6" -> 6 [] c = "7" -> 7 [] c = "8" -> 8 [] c = "9" -> 9
      [] OTHER -> -1

RECURSIVE digits_value(_, _)
digits_value(chars, acc) ==
    IF chars = <<>> THEN acc
    ELSE digits_value(Tail(chars), 10 * acc + DigitValue(Head(chars)))

\* int(page_str), 1 on ValueError
parse_page(data) ==
    LET page_str == IF data.colon THEN data.arg ELSE <<>>
        negative == page_str # <<>> /\ Head(page_str) = "-"
        digits == IF negative THEN Tail(page_str) ELSE page_str
    IN  IF digits = <<>> \/ \E i \in 1..Len(digits) : DigitValue(digits[i]) < 0
        THEN 1
        ELSE IF negative THEN 0 - digits_value(digits, 0) ELSE digits_value(digits, 0)

\* _paginate_usernames without the upper clamp min(page, total_pages)
paginate_unclamped(users, page) ==
    [raised |-> users.raised,
     usernames |-> SubSeq(users.usernames, (Max(1, page) - 1) * USER_LIST_PAGE_SIZE + 1,
                          Min(Max(1, page) * USER_LIST_PAGE_SIZE, Len(users.usernames))),
     page |-> IF Len(users.usernames) = 0 THEN 0 ELSE Max(1, page),
     total_pages |-> (Len(users.usernames) + USER_LIST_PAGE_SIZE - 1)
                        \div USER_LIST_PAGE_SIZE]

\* _paginate_usernames, given what list_users returned or raised
paginate(users, page) ==
    LET total == Len(users.usernames)
        total_pages == (total + USER_LIST_PAGE_SIZE - 1) \div USER_LIST_PAGE_SIZE
        current == Max(1, Min(page, total_pages))
        start == (current - 1) * USER_LIST_PAGE_SIZE
    IN  IF users.raised # None
        THEN [raised |-> users.raised, usernames |-> <<>>, page |-> 0, total_pages |-> 0]
        ELSE IF total = 0
        THEN [raised |-> None, usernames |-> <<>>, page |-> 0, total_pages |-> 0]
        ELSE [raised |-> None,
              usernames |-> SubSeq(users.usernames, start + 1,
                                   Min(start + USER_LIST_PAGE_SIZE, total)),
              page |-> current, total_pages |-> total_pages]

paginate_usernames(file, page) == paginate(list_users(file), page)

build_paginated_user_keyboard(usernames, action_prefix, page_prefix, page, total_pages) ==
    {Data(action_prefix, TRUE, usernames[i]) : i \in 1..Len(usernames)}
    \cup (IF total_pages > 1 /\ page > 1
          THEN {Data(page_prefix, TRUE, <<ToString(page - 1)>>)} ELSE {})
    \cup (IF total_pages > 1 /\ page < total_pages
          THEN {Data(page_prefix, TRUE, <<ToString(page + 1)>>)} ELSE {})
    \cup {Button("back_to_menu")}

\* _show_delete_user_menu / _show_admin_config_menu up to the await of the upsert,
\* given the page p that _paginate_usernames returned
user_menu(p, admin, action_prefix, page_prefix, empty_text, text) ==
    IF p.raised # None THEN [raised |-> p.raised, ops |-> <<>>]
    ELSE IF p.usernames = <<>>
    THEN [raised |-> None, ops |-> <<upsert_message(empty_text, menu_keyboard(admin))>>]
    ELSE [raised |-> None,
          ops |-> <<Op("_upsert_message", text,
                       build_paginated_user_keyboard(p.usernames, action_prefix,
                                                     page_prefix, p.page, p.total_pages),
                       p.usernames)>>]

show_user_menu(file, admin, page, action_prefix, page_prefix, empty_text, text) ==
    user_menu(paginate_usernames(file, page), admin, action_prefix, page_prefix,
              empty_text, text)

show_delete_user_menu(file, admin, page) ==
    show_user_menu(file, admin, page, "delete_user", "delete_user_page",
                   "no users to delete", "choose the user to delete")

show_admin_config_menu(file, admin, page) ==
    show_user_menu(file, admin, page, "admin_config_select", "admin_config_page",
                   "no users to give a config to", "choose the user to give a config to")

(***************************************************************************)
(* The handlers, each up to its first await: the session states and the    *)
(* credential file it leaves, the steps it has still to make, and the      *)
(* exception that escaped it (None when none did).                         *)
(***************************************************************************)
NoMutation == [op |-> "none"]

Outcome(sts, file, prog, raised) ==
    [states |-> sts, store |-> file, prog |-> prog, raised |-> raised,
     mutation |-> NoMutation, written |-> NoFile]

\* The outcome of a handler that called add_user or delete_user: the call that
\* wrote the file, if one did.
Mutated(outcome, r, op, username, password) ==
    [outcome EXCEPT !.mutation =
        IF r.saved THEN [op |-> op, username |-> username, password |-> password]
        ELSE NoMutation]

set_mode(sts, chat_id, mode) ==
    [sts EXCEPT ![chat_id] = [mode |-> mode, pending_username |-> sts[chat_id].pending_username]]

\* handle_start without state_store.clear_state
handle_start_keeps_mode(cfg, sts, file, chat_id, user_id) ==
    Outcome(sts, file, <<show_menu(is_admin(cfg, user_id))>>, None)

handle_start(cfg, sts, file, chat_id, user_id) ==
    Outcome(clear_state(sts, chat_id), file, <<show_menu(is_admin(cfg, user_id))>>, None)

AdminOnly == {"add_user", "delete_user", "admin_config", "show_rules"}

handle_callback(cfg, sts, file, chat_id, user_id, data, env, genv) ==
    LET admin == is_admin(cfg, user_id)
        state == get_state(sts, chat_id)
        username == data.arg
    IN  IF ~data.colon /\ data.head \in AdminOnly /\ ~admin
        THEN Outcome(state, file,
                     <<callback_answer("insufficient rights"), show_menu(admin)>>, None)
        ELSE IF data.colon /\ data.head = "delete_user" /\ ~admin
        THEN Outcome(state, file,
                     <<callback_answer("insufficient rights"), show_menu(admin)>>, None)
        ELSE IF ~data.colon /\ data.head = "add_user"
        THEN Outcome([state EXCEPT ![chat_id] =
                         [mode |-> "add_user", pending_username |-> NoneStr]],
                     file,
                     <<upsert_message("send the username", menu_keyboard(admin)),
                       callback_answer("")>>, None)
        ELSE IF ~data.colon /\ data.head = "delete_user"
        THEN LET menu == show_delete_user_menu(file, admin, 1)
             IN  Outcome(set_mode(state, chat_id, None), file,
                         menu.ops \o <<callback_answer("")>>, menu.raised)
        ELSE IF ~data.colon /\ data.head = "admin_config"
        THEN LET menu == show_admin_config_menu(file, admin, 1)
             IN  Outcome(set_mode(state, chat_id, None), file,
                         menu.ops \o <<callback_answer("")>>, menu.raised)
        ELSE IF ~data.colon /\ data.head = "show_rules"
        THEN LET summary == load_rules_summary(cfg, genv)
             IN  Outcome(state, file,
                         <<upsert_message(summary.text, menu_keyboard(admin)),
                           ClearState, callback_answer("")>>, summary.raised)
        ELSE IF ~data.colon /\ data.head = "my_config"
        THEN Outcome(set_mode(state, chat_id, "my_config"), file,
                     <<upsert_message("preparing the config", menu_keyboard(admin)),
                       SendConfigs(from_user(user_id).username),
                       show_menu(admin), ClearState, callback_answer("")>>, None)
        ELSE IF data.colon /\ data.head = "delete_user"
        THEN IF username = <<>>
             THEN Outcome(state, file,
                          <<callback_answer("invalid user"), show_menu(admin), ClearState>>,
                          None)
             ELSE LET r == delete_user(cfg, file, username, env)
                      outcome ==
                          IF r.raised = "ValueError"
                          THEN Outcome(state, r.file,
                                       <<callback_answer(r.msg), show_menu(admin),
                                         ClearState>>, None)
                          ELSE IF r.raised # None
                          THEN Outcome(state, r.file, <<>>, r.raised)
                          ELSE Outcome(state, r.file,
                                       <<Op("callback.answer", "user deleted", {},
                                            <<username>>),
                                         show_menu(admin), ClearState>>, None)
                  IN  Mutated(outcome, r, "delete_user", username, NoneStr)
        ELSE IF ~data.colon /\ data.head = "back_to_menu"
        THEN Outcome(state, file, <<show_menu(admin), ClearState>>, None)
        ELSE IF data.colon /\ data.head = "delete_user_page"
        THEN LET menu == show_delete_user_menu(file, admin, parse_page(data))
             IN  Outcome(state, file, menu.ops, menu.raised)
        ELSE IF data.colon /\ data.head = "admin_config_page"
        THEN LET menu == show_admin_config_menu(file, admin, parse_page(data))
             IN  Outcome(state, file, menu.ops, menu.raised)
        ELSE IF data.colon /\ data.head = "admin_config_select"
        THEN IF username = <<>>
             THEN Outcome(state, file,
                          <<callback_answer("invalid user"), show_menu(admin), ClearState>>,
                          None)
             ELSE Outcome(state, file,
                          <<Op("_upsert_message", "preparing the config for",
                               menu_keyboard(admin), <<username>>),
                            SendConfigs(username), show_menu(admin), ClearState>>, None)
        ELSE Outcome(state, file, <<callback_answer("")>>, None)

handle_add_user(cfg, sts, file, message, env, seed) ==
    LET username == extract_username(message)
        password == generate_password(seed)
        r == add_user(cfg, file, username, password, env)
    IN  IF ~truthy(username)
        THEN Outcome(sts, file, <<message_answer("cannot determine the username", <<>>)>>,
                     None)
        ELSE Mutated(IF r.raised = "ValueError"
                     THEN Outcome(sts, r.file, <<message_answer(r.msg, <<>>)>>, None)
                     ELSE IF r.raised # None
                     THEN Outcome(sts, r.file, <<>>, r.raised)
                     ELSE Outcome(sts, r.file,
                                  <<message_answer("user created", <<username, password>>),
                                    show_menu(TRUE), ClearState>>, None),
                     r, "add_user", username, password)

handle_admin_config(cfg, sts, file, message) ==
    LET username == normalize_username(IF message.text = NoneStr THEN <<>>
                                       ELSE message.text)
    IN  IF ~truthy(username)
        THEN Outcome(sts, file, <<message_answer("enter the username", <<>>)>>, None)
        ELSE Outcome(sts, file, <<SendConfigs(username), show_menu(TRUE), ClearState>>, None)

handle_text(cfg, sts, file, chat_id, user_id, message, env, seed) ==
    LET state == get_state(sts, chat_id)
        mode == state[chat_id].mode
    IN  IF mode = None
        THEN Outcome(state, file, <<show_menu(is_admin(cfg, user_id))>>, None)
        ELSE IF mode = "add_user"
        THEN handle_add_user(cfg, state, file, message, env, seed)
        ELSE IF mode = "admin_config"
        THEN handle_admin_config(cfg, state, file, message)
        ELSE Outcome(state, file, <<show_menu(is_admin(cfg, user_id))>>, None)

(***************************************************************************)
(* Running a handler from one await to the next.                           *)
(***************************************************************************)
\* The synchronous steps at the head of prog, up to the next Bot API call.
RECURSIVE run_sync(_, _, _, _, _)
run_sync(cfg, ms, chat_id, genv, s) ==
    IF s.raised # None \/ s.prog = <<>> THEN s
    ELSE LET step == Head(s.prog)
             rest == Tail(s.prog)
         IN  IF step.op = "clear_state"
             THEN run_sync(cfg, ms, chat_id, genv,
                           [s EXCEPT !.states = clear_state(s.states, chat_id),
                                     !.prog = rest])
             ELSE IF step.op = "_upsert_message"
             THEN [s EXCEPT !.prog =
                      <<IF get_message_id(ms, chat_id) # 0
                        THEN Op("bot.edit_message_text", step.text, step.kb, step.arg)
                        ELSE Op("upsert.send_message", step.text, step.kb, step.arg)>>
                      \o rest]
             ELSE IF step.op = "_send_configs"
             THEN LET sent == send_configs(cfg, step.arg[1], genv)
                  IN  run_sync(cfg, ms, chat_id, genv,
                               [s EXCEPT !.raised = sent.raised,
                                         !.prog = sent.ops \o rest,
                                         !.written = IF sent.written = NoFile THEN @
                                                     ELSE sent.written])
             ELSE s

(***************************************************************************)
(* The dispatcher (build_dispatcher, start_polling): every update is       *)
(* handled in a task of its own, so handlers of several updates are in     *)
(* flight together and take turns at their awaits.                         *)
(***************************************************************************)
Message(text, forward_from) == [text |-> text, forward_from |-> forward_from]

Messages ==
    {Message(<<"@", "a">>, NoForward),
     Message(<<" ">>, NoForward),
     Message(NoneStr, Forward(2, <<"b">>))}

CallbackData ==
    {Button(h) : h \in AdminOnly \cup {"my_config", "back_to_menu"}}
    \cup {Data("delete_user", TRUE, n) : n \in Names \cup {<<>>}}
    \cup {Data("admin_config_select", TRUE, n) : n \in Names}
    \cup {Data("delete_user_page", TRUE, <<"2">>), Data("admin_config_page", TRUE, <<"x">>)}

NominalEnv == [post |-> "ok", restart |-> "exit0"]

\* What the environment can do to the handler of an update, where it matters.
EnvsOfCallback(data) ==
    IF data.colon /\ data.head = "delete_user" THEN Envs ELSE {NominalEnv}

GenEnvsOfCallback(data) ==
    IF ~data.colon /\ data.head = "show_rules"
    THEN {NominalGenEnv, [NominalGenEnv EXCEPT !.rules = "ValueError"]}
    ELSE {NominalGenEnv}

EnvsOfText(chat_id) ==
    IF mode_of(states, chat_id) = "add_user" THEN Envs ELSE {NominalEnv}

GenEnvsOfText(chat_id) ==
    IF mode_of(states, chat_id) = "admin_config" THEN GenEnvs ELSE {NominalGenEnv}

GenEnvsOfTask(t) ==
    IF task[t].pc = "run" /\ Len(task[t].prog) >= 2 /\ task[t].prog[2].op = "_send_configs"
    THEN GenEnvs ELSE {NominalGenEnv}

Running(t) == task[t].pc = "run"

NoEscape == [exc |-> None, saved |-> FALSE]
Off == [on |-> FALSE]
MaxEvents == 3      \* updates dispatched while the menu messages are counted

Counting ==
    [on |-> TRUE, events |-> 0, sent |-> [c \in Chats |-> 0],
     failed |-> [c \in Chats |-> 0]]

HasFreeSlot == \E t \in DOMAIN task : task[t] = Free
FreeSlot == CHOOSE t \in DOMAIN task : task[t] = Free /\ \A u \in 1..(t - 1) : task[u] # Free

apply_mutation(clients, m) ==
    IF m.op = "add_user" THEN Append(clients, ClientCredential(m.username, m.password))
    ELSE IF m.op = "delete_user"
    THEN SelectSeq(clients, LAMBDA client : client.username # m.username)
    ELSE clients

\* The handler has run to its next await, to its end, or to an exception.
Settle(t, chat_id, user_id, ev, saved, s) ==
    /\ states' = s.states
    /\ store' = s.store
    /\ serial' = apply_mutation(serial, s.mutation)
    /\ client_toml' = IF s.written = NoFile THEN client_toml ELSE s.written
    /\ task' = [task EXCEPT ![t] =
                   IF s.raised # None \/ s.prog = <<>> THEN Free
                   ELSE [pc |-> "run", chat |-> chat_id, uid |-> user_id, ev |-> ev,
                         saved |-> saved, prog |-> s.prog]]
    /\ escaped' = IF s.raised # None
                  THEN [exc |-> s.raised, saved |-> saved, chat |-> chat_id, ev |-> ev]
                  ELSE NoEscape

Dispatched ==
    /\ HasFreeSlot
    /\ stats.on => stats.events < MaxEvents
    /\ stats' = IF stats.on THEN [stats EXCEPT !.events = @ + 1] ELSE stats

\* Command("start") and Command("menu")
Start(chat_id, user_id) ==
    /\ Dispatched
    /\ \E s \in {run_sync(config, messages, chat_id, NominalGenEnv,
                          handle_start(config, states, store, chat_id, user_id))} :
           Settle(FreeSlot, chat_id, user_id,
                  [kind |-> "start", mode |-> mode_of(states, chat_id)], FALSE, s)
    /\ UNCHANGED <<config, messages, call>>

Callback(chat_id, user_id, data, env, genv) ==
    /\ Dispatched
    /\ \E s \in {run_sync(config, messages, chat_id, genv,
                          handle_callback(config, states, store, chat_id, user_id, data,
                                          env, genv))} :
           Settle(FreeSlot, chat_id, user_id,
                  [kind |-> "callback", data |-> data, mode |-> mode_of(states, chat_id)],
                  s.mutation # NoMutation, s)
    /\ UNCHANGED <<config, messages, call>>

\* F.text | F.forward_from | F.forward_sender_name
Text(chat_id, user_id, message, env, genv, seed) ==
    /\ Dispatched
    /\ mode_of(states, chat_id) = "add_user" => Len(store) < MaxUsers
    /\ \E s \in {run_sync(config, messages, chat_id, genv,
                          handle_text(config, states, store, chat_id, user_id, message,
                                      env, seed))} :
           Settle(FreeSlot, chat_id, user_id,
                  [kind |-> "text", message |-> message, mode |-> mode_of(states, chat_id)],
                  s.mutation # NoMutation, s)
    /\ UNCHANGED <<config, messages, call>>

\* The Bot API call the handler awaits returns, and the handler runs on.
Resume(t, genv) ==
    /\ Running(t)
    /\ LET head == Head(task[t].prog)
           chat_id == task[t].chat
           sending == head.op = "upsert.send_message"
           message_id == (get_message_id(messages, chat_id) % MaxMsgId) + 1
           ms == IF sending THEN set_message_id(messages, chat_id, message_id)
                 ELSE messages
       IN  /\ messages' = ms
           /\ stats' = IF stats.on /\ sending
                       THEN [stats EXCEPT !.sent[chat_id] = @ + 1] ELSE stats
           /\ \E s \in {run_sync(config, ms, chat_id, genv,
                                 [states |-> states, store |-> store,
                                  prog |-> Tail(task[t].prog), raised |-> None,
                                  mutation |-> NoMutation, written |-> NoFile])} :
                  Settle(t, chat_id, task[t].uid, task[t].ev, task[t].saved, s)
    /\ UNCHANGED <<config, call>>

\* bot.edit_message_text raises TelegramBadRequest (the message was deleted, or
\* its content is unchanged): _upsert_message goes on to send a new message.
EditFails(t) ==
    /\ Running(t)
    /\ Head(task[t].prog).op = "bot.edit_message_text"
    /\ task' = [task EXCEPT ![t].prog =
                   <<[Head(task[t].prog) EXCEPT !.op = "upsert.send_message"]>>
                   \o Tail(task[t].prog)]
    /\ stats' = IF stats.on THEN [stats EXCEPT !.failed[task[t].chat] = @ + 1] ELSE stats
    /\ escaped' = NoEscape
    /\ UNCHANGED <<config, store, states, messages, call, serial, client_toml>>

InitBot(slots, counters) ==
    /\ config \in Configs
    /\ store \in InitStores
    /\ states = EmptyDict
    /\ messages = EmptyDict
    /\ task = [t \in 1..slots |-> Free]
    /\ call = NoCall
    /\ serial = load_credentials(store).clients
    /\ escaped = NoEscape
    /\ stats = counters
    /\ client_toml = NoFile

(***************************************************************************)
(* Spec: the bot in one chat (a group with an administrator and another    *)
(* member), its updates handled one at a time.                             *)
(***************************************************************************)
Init == InitBot(1, Off)

Next ==
    \/ \E chat_id \in Chats, user_id \in UserIds : Start(chat_id, user_id)
    \/ \E chat_id \in Chats, user_id \in UserIds, data \in CallbackData :
           \E env \in EnvsOfCallback(data), genv \in GenEnvsOfCallback(data) :
               Callback(chat_id, user_id, data, env, genv)
    \/ \E chat_id \in Chats, user_id \in UserIds, message \in Messages, seed \in Seeds :
           \E env \in EnvsOfText(chat_id), genv \in GenEnvsOfText(chat_id) :
               Text(chat_id, user_id, message, env, genv, seed)
    \/ \E t \in DOMAIN task : \E genv \in GenEnvsOfTask(t) : Resume(t, genv)
    \/ \E t \in DOMAIN task : EditFails(t)

Spec == Init /\ [][Next]_vars

(***************************************************************************)
(* SpecRace: the administrator adds users in one chat and deletes users in *)
(* another, the handlers in flight together.  The event loop runs every    *)
(* handler whose Bot API call has returned, and the Bot API answers every  *)
(* call (here, without refusing an edit).                                  *)
(***************************************************************************)
AddChats == {101}
DeleteChats == {102}

InitRace == InitBot(MaxTasks, Off) /\ config = FullConfig /\ store = <<>>

NextRace ==
    \/ \E chat_id \in AddChats :
           Callback(chat_id, 1, Button("add_user"), NominalEnv, NominalGenEnv)
    \/ \E chat_id \in DeleteChats, n \in Names, env \in Envs :
           Callback(chat_id, 1, Data("delete_user", TRUE, n), env, NominalGenEnv)
    \/ \E chat_id \in AddChats, message \in Messages, seed \in {"x"} :
           \E env \in EnvsOfText(chat_id) :
               Text(chat_id, 1, message, env, NominalGenEnv, seed)
    \/ \E t \in DOMAIN task : Resume(t, NominalGenEnv)

SpecRace ==
    /\ InitRace
    /\ [][NextRace]_vars
    /\ \A t \in 1..MaxTasks : WF_vars(Resume(t, NominalGenEnv))

(***************************************************************************)
(* SpecUpsert: the menu of one chat, rendered by handlers in flight        *)
(* together, the messages sent and the edits failed counted.               *)
(***************************************************************************)
InitUpsert == InitBot(MaxTasks, Counting)

NextUpsert ==
    \/ \E chat_id \in Chats, user_id \in UserIds : Start(chat_id, user_id)
    \/ \E chat_id \in Chats, user_id \in UserIds :
           Callback(chat_id, user_id, Button("back_to_menu"), NominalEnv, NominalGenEnv)
    \/ \E t \in DOMAIN task : Resume(t, NominalGenEnv)
    \/ \E t \in DOMAIN task : EditFails(t)

SpecUpsert == InitUpsert /\ [][NextUpsert]_vars

(***************************************************************************)
(* Properties of user_management and service, under SpecUM.                *)
(***************************************************************************)
Absent(file, username) ==
    \A i \in 1..Len(file) : load_credentials(file).clients[i].username # username

\* C1: starting from a store whose usernames are pairwise distinct, after any
\* sequence of add_user and delete_user calls, successful or failing, no two
\* records of the store share a username.
UniqueUsernames ==
    /\ list_users(store).raised = None
    /\ Distinct(list_users(store).usernames)

\* An add_user refused as a duplicate, on a store of two records.
DuplicateRefused ==
    /\ call.op = "add_user"
    /\ call.raised = "ValueError"
    /\ call.msg = "already exists"
    /\ Len(store) = 2

\* C2: if the username is absent, add_user succeeds and list_users afterwards
\* is the previous list followed by the username, the previous records
\* unchanged; if it is present, add_user fails with the duplicate-user error
\* and the stored records are what they were before the call.
AddUserContract ==
    call.op = "add_user" =>
        IF Absent(call.before, call.username)
        THEN /\ call.raised = None
             /\ load_credentials(store).clients =
                    Append(load_credentials(call.before).clients,
                           ClientCredential(call.username, call.password))
             /\ list_users(store).usernames =
                    Append(list_users(call.before).usernames, call.username)
        ELSE /\ call.raised = "ValueError"
             /\ call.msg = "already exists"
             /\ load_credentials(store).clients = load_credentials(call.before).clients

ReloadContract ==
    call.op = "reload_credentials" =>
        LET hot == config.reload_endpoint # None /\ call.env.post = "ok"
        IN  /\ call.restarted <=> ~hot
            /\ call.used_hot_reload <=> hot
            /\ call.raised \notin PostOutcomes

(***************************************************************************)
(* Properties of the chat session controller, under Spec.                  *)
(***************************************************************************)
AdminOnlyData(data) ==
    \/ ~data.colon /\ data.head \in AdminOnly
    \/ data.colon /\ data.head \in {"delete_user", "admin_config_select",
                                    "delete_user_page", "admin_config_page"}

Refusal == <<callback_answer("insufficient rights"), show_menu(FALSE)>>

\* C4: a press of an admin-only button (add_user, delete_user, admin_config,
\* show_rules, delete_user:<name>, admin_config_select:<name>,
\* delete_user_page:<n>, admin_config_page:<n>) by an identity outside the
\* admin set starts a handler that answers "insufficient rights", re-renders
\* the menu and does nothing else: the chat's mode and the store stay as they
\* were.
NonAdminRefused ==
    [][\A t \in DOMAIN task :
          (/\ task[t] = Free
           /\ task'[t] # Free
           /\ task'[t].ev.kind = "callback"
           /\ AdminOnlyData(task'[t].ev.data)
           /\ ~is_admin(config, task'[t].uid))
          => /\ task'[t].prog = Refusal
             /\ store' = store
             /\ mode_of(states', task'[t].chat) = mode_of(states, task'[t].chat)]_vars

AdminAction(t) ==
    \/ task[t].ev.kind = "text" /\ task[t].ev.mode = "add_user" /\ task[t].saved
    \/ /\ task[t].ev.kind = "callback"
       /\ is_admin(config, task[t].uid)
       /\ task[t].ev.data.colon
       /\ task[t].ev.data.head \in {"delete_user", "admin_config_select"}
       /\ task[t].ev.data.arg # <<>>

MenuTexts == {render_menu(TRUE), render_menu(FALSE)}

\* The handler of an admin action ends: the call it returns from rendered the
\* menu, and the chat's mode is cleared.
CompletionAtMenu ==
    \A t \in DOMAIN task :
        (Running(t) /\ task'[t] = Free /\ escaped'.exc = None /\ AdminAction(t))
        => /\ Head(task[t].prog).text \in MenuTexts
           /\ mode_of(states', task[t].chat) = None

\* A step that adds a record to the store starts the delivery of "user
\* created" with that record's username and password, of 12 characters or
\* more, then the menu and the clearing of the mode.
AddedIsAnnounced ==
    Len(store') = Len(store) + 1 =>
        LET client == load_credentials(store').clients[Len(store')]
        IN  /\ Len(client.password) >= 12
            /\ \E t \in DOMAIN task :
                   /\ task[t] = Free
                   /\ task'[t] # Free
                   /\ task'[t].prog =
                          <<message_answer("user created",
                                           <<client.username, client.password>>),
                            show_menu(TRUE), ClearState>>

\* C5: the completion of an admin action (a user added from free text or a
\* forwarded message, a user of the list deleted, a config generated for a
\* user of the list) leaves the chat with its mode cleared and the menu
\* re-rendered; and an admin who has pressed add_user and sends a new username
\* ends with the user in the store, a "user created" message carrying the
\* username and a generated password of at least 12 characters, and the menu.
AdminActionCompletes == [][CompletionAtMenu /\ AddedIsAnnounced]_vars

ErrorTexts ==
    {"already exists", "not found", "TOMLDecodeError",
     "Each client must have username and password", "generation error"}

EndsAtMenu(prog) ==
    /\ Len(prog) >= 2
    /\ prog[Len(prog)] = ClearState
    /\ prog[Len(prog) - 1].op = "_upsert_message"
    /\ prog[Len(prog) - 1].text \in MenuTexts

\* C6: no error raised while an update is handled leaves the handler; each is
\* delivered to the chat as a message, after which the handler re-renders the
\* menu and clears the chat's mode.
ErrorsDelivered ==
    /\ escaped.exc = None
    /\ \A t \in DOMAIN task :
           (Running(t) /\ Head(task[t].prog).text \in ErrorTexts)
           => EndsAtMenu(task[t].prog)

\* C8: a failure of the reload step is never escalated: no handler that has
\* written the credentials file is left by an exception, so that the change
\* persisted is always followed by its message to the chat.
ReloadNeverEscalated == escaped.exc = None \/ ~escaped.saved

(***************************************************************************)
(* Properties of handlers in flight together, under SpecRace and           *)
(* SpecUpsert.                                                             *)
(***************************************************************************)
\* C9 (as the code has it): add_user and delete_user read, modify and write
\* the file without a lock, but without an await between the read and the
\* write; the handlers of one event loop therefore never interleave these
\* steps, and the file is always the list obtained by applying, one after
\* the other, the mutations that wrote it: no update is lost.
NoLostUpdate == store = save_credentials(serial)

\* Two handlers in flight in different chats, each having written the file.
ConcurrentMutations ==
    \E t, u \in DOMAIN task :
        /\ t # u
        /\ Running(t) /\ Running(u)
        /\ task[t].saved /\ task[u].saved
        /\ task[t].chat # task[u].chat

LostUpdate == store # save_credentials(serial)

\* C9 (as the specification has it): when two mutations are handled
\* concurrently, the update of one of them is lost.
ConcurrentMutationsLoseUpdate == ConcurrentMutations ~> LostUpdate

\* C10: over the upserts of a chat, the number of menu messages sent is at
\* most one plus the number of failed edits.
UpsertBound ==
    stats.on => \A c \in Chats : stats.sent[c] <= 1 + stats.failed[c]

(***************************************************************************)
(* Properties of /start and /menu, under Spec.                             *)
(***************************************************************************)
AdminButtons ==
    {Button("add_user"), Button("delete_user"), Button("admin_config"),
     Button("show_rules"), Button("my_config")}

UserButtons == {Button("my_config")}

\* C11: in every session state, /start or /menu leaves the chat without a
\* mode and starts the rendering of the menu of the sender's role: the four
\* admin actions and my_config for an identity of the admin set, my_config
\* alone for any other; and a free-text message received by a chat without a
\* mode is not taken as a username: it changes neither the store nor the mode.
StartClearsAndRenders ==
    [][\A t \in DOMAIN task :
          (task[t] = Free /\ task'[t] # Free) =>
              /\ task'[t].ev.kind = "start" =>
                     /\ mode_of(states', task'[t].chat) = None
                     /\ Len(task'[t].prog) = 1
                     /\ Head(task'[t].prog).op \in
                            {"bot.edit_message_text", "upsert.send_message"}
                     /\ IF task'[t].uid \in config.admin_ids
                        THEN /\ Head(task'[t].prog).text = "menu: Administrator"
                             /\ Head(task'[t].prog).kb = AdminButtons
                        ELSE /\ Head(task'[t].prog).text = "menu: User"
                             /\ Head(task'[t].prog).kb = UserButtons
              /\ (task'[t].ev.kind = "text" /\ mode_of(states, task'[t].chat) = None) =>
                     /\ store' = store
                     /\ mode_of(states', task'[t].chat) = None]_vars

\* /start received by a chat in mode add_user, its mode now cleared.
StartedFromAddUser ==
    \E t \in DOMAIN task :
        /\ Running(t)
        /\ task[t].ev.kind = "start"
        /\ task[t].ev.mode = "add_user"
        /\ mode_of(states, task[t].chat) = None

(***************************************************************************)
(* SpecPage: a page of the user list is requested (delete_user_page:<n>,   *)
(* admin_config_page:<n>) on stores of 0 to MaxListed users.               *)
(***************************************************************************)
MaxListed == 25

ListedUsers(n) ==
    [i \in 1..n |-> ClientCredential(<<"u", ToString(i)>>, generate_password("x"))]

PageRequests == {<<>>, <<"x">>, <<"-", "1">>, <<"0">>, <<"1">>, <<"2">>, <<"3">>, <<"4">>}

InitPage ==
    /\ config = FullConfig
    /\ store \in {save_credentials(ListedUsers(n)) : n \in 0..MaxListed}
    /\ states = EmptyDict
    /\ messages = EmptyDict
    /\ task = [t \in 1..MaxTasks |-> Free]
    /\ call = NoCall
    /\ serial = <<>>
    /\ escaped = NoEscape
    /\ stats = Off
    /\ client_toml = NoFile

\* page = _parse_page(action), then _paginate_usernames(config, page)
CallPaginate(data) ==
    /\ \E page \in {parse_page(data)} :
           call' = [op |-> "paginate_usernames", data |-> data, page |-> page,
                    result |-> paginate_usernames(store, page)]
    /\ UNCHANGED <<config, store, states, messages, task, serial, escaped, stats, client_toml>>

NextPage ==
    \E head \in {"delete_user_page", "admin_config_page"}, arg \in PageRequests :
        CallPaginate(Data(head, TRUE, arg))

SpecPage == InitPage /\ [][NextPage]_vars

RECURSIVE AllPages(_, _, _)
AllPages(file, page, total_pages) ==
    IF page > total_pages THEN <<>>
    ELSE paginate_usernames(file, page).usernames \o AllPages(file, page + 1, total_pages)

MaxSaved == 2

StoredStrings ==
    {<<>>, <<"a">>, <<"\"">>, <<"\\">>, <<"\\", "\"">>, <<"\\", "n">>, <<"a", "\n", "b">>}

StoredPasswords == {<<>>, <<"p">>, <<"\"", "\\">>}

SavedLists ==
    UNION {[1..n -> [username : StoredStrings, password : StoredPasswords]] :
               n \in 0..MaxSaved}

InitStore ==
    /\ config = BareConfig
    /\ store = <<>>
    /\ states = EmptyDict
    /\ messages = EmptyDict
    /\ task = [t \in 1..MaxTasks |-> Free]
    /\ call = NoCall
    /\ serial = <<>>
    /\ escaped = NoEscape
    /\ stats = Off
    /\ client_toml = NoFile

\* save_credentials(path, clients), then load_credentials(path)
CallSaveLoad(clients) ==
    /\ store' = save_credentials(clients)
    /\ call' = [op |-> "save_credentials", clients |-> clients,
                loaded |-> load_credentials(save_credentials(clients))]
    /\ UNCHANGED <<config, states, messages, task, serial, escaped, stats, client_toml>>

\* save_credentials(path, load_credentials(path))
CallLoadSave ==
    /\ \E loaded \in {load_credentials(store)} :
           /\ store' = IF loaded.raised = None THEN save_credentials(loaded.clients)
                        ELSE store
           /\ call' = [op |-> "load_credentials", before |-> store, loaded |-> loaded]
    /\ UNCHANGED <<config, states, messages, task, serial, escaped, stats, client_toml>>

NextStore ==
    \/ \E clients \in SavedLists : CallSaveLoad(clients)
    \/ CallLoadSave

SpecStore == InitStore /\ [][NextStore]_vars

\* C13: for every list of credentials L, load_credentials after
\* save_credentials(L) returns L; and save_credentials(load_credentials(path))
\* on a store that save_credentials wrote leaves the file as it was.
RoundTrip ==
    /\ call.op = "save_credentials" =>
           /\ call.loaded.raised = None
           /\ call.loaded.clients = call.clients
    /\ call.op = "load_credentials" => store = call.before

(***************************************************************************)
(* SpecGen: a client config and a connection profile are generated from an *)
(* endpoint descriptor, whatever the descriptor holds and the wizard does. *)
(***************************************************************************)
DnsOverrides == {<<>>, <<<<"1">>>>, <<<<"1">>, <<"2">>>>}

InitGen ==
    /\ config = FullConfig
    /\ store = <<>>
    /\ states = EmptyDict
    /\ messages = EmptyDict
    /\ task = [t \in 1..MaxTasks |-> Free]
    /\ call \in {[op |-> "descriptor", descriptor |-> d] : d \in Descriptors}
    /\ serial = <<>>
    /\ escaped = NoEscape
    /\ stats = Off
    /\ client_toml = NoFile

CallGenerateClientConfig(prefer_setup_wizard, dns_upstreams, wenv) ==
    /\ call' = [op |-> "generate_client_config", descriptor |-> call.descriptor,
                prefer_setup_wizard |-> prefer_setup_wizard,
                dns_upstreams |-> dns_upstreams, wenv |-> wenv,
                result |-> generate_client_config(call.descriptor, prefer_setup_wizard,
                                                  dns_upstreams, wenv)]
    /\ UNCHANGED <<config, store, states, messages, task, serial, escaped, stats, client_toml>>

CallBuildConnectionProfile ==
    /\ call' = [op |-> "build_connection_profile", descriptor |-> call.descriptor,
                result |-> build_connection_profile(call.descriptor)]
    /\ UNCHANGED <<config, store, states, messages, task, serial, escaped, stats, client_toml>>

NextGen ==
    \/ \E prefer_setup_wizard \in BOOLEAN, dns_upstreams \in DnsOverrides,
          wenv \in WizardEnvs :
           CallGenerateClientConfig(prefer_setup_wizard, dns_upstreams, wenv)
    \/ CallBuildConnectionProfile

SpecGen == InitGen /\ [][NextGen]_vars

\* C14: for every endpoint descriptor without a certificate, the result of
\* generate_client_config has skip_verification = true and its content has no
\* certificate line, whether the wizard or the template produced it.
SkipVerificationWithoutCertificate ==
    (/\ call.op = "generate_client_config"
     /\ call.descriptor.certificate = NoneStr
     /\ call.result.returned)
    => /\ call.result.skip_verification
       /\ \A i \in 1..Len(call.result.content) : call.result.content[i].key # "certificate"

Lacking(descriptor) ==
    {name \in RequiredFields : descriptor[name] \in {NoneStr, <<>>}}

WizardUnavailable ==
    \/ ~call.prefer_setup_wizard
    \/ call.wenv.run # "exit0"
    \/ ~call.wenv.exists

\* C15: when the wizard is unavailable and the descriptor lacks, or has
\* empty, a non-empty set S of the required fields, generate_client_config
\* and build_connection_profile both fail with the validation error naming
\* exactly the fields of S, and generate_client_config writes no config.
MissingFieldsNamed ==
    /\ (/\ call.op = "generate_client_config"
        /\ WizardUnavailable
        /\ Lacking(call.descriptor) # {})
       => /\ call.result.raised = "ValueError"
          /\ call.result.missing = Lacking(call.descriptor)
          /\ ~call.result.written
    /\ (/\ call.op = "build_connection_profile"
        /\ Lacking(call.descriptor) # {})
       => /\ call.result.raised = "ValueError"
          /\ call.result.missing = Lacking(call.descriptor)

OtherLines(content) == SelectSeq(content, LAMBDA line : line.key # "dns_upstreams")

\* C16: when a non-empty DNS override list is given, the content that
\* generate_client_config returns has exactly one dns_upstreams line, which
\* carries the override list, whether the content is the wizard's (with or
\* without a dns_upstreams line of its own) or the template's; the other
\* lines are those of the wizard's output, or of the template without an
\* override, in the same order.
DnsOverrideMerged ==
    (/\ call.op = "generate_client_config"
     /\ call.dns_upstreams # <<>>
     /\ call.result.returned)
    => LET content == call.result.content
           base == IF call.result.used_setup_wizard THEN call.wenv.content
                   ELSE build_client_config_from_endpoint(call.descriptor, <<>>).content
       IN  /\ Cardinality({i \in 1..Len(content) : content[i].key = "dns_upstreams"}) = 1
           /\ \A i \in 1..Len(content) :
                  content[i].key = "dns_upstreams" => content[i].values = call.dns_upstreams
           /\ OtherLines(content) = OtherLines(base)

\* An override of two upstreams merged into a wizard output that has a
\* dns_upstreams line of its own.
WizardDnsLineReplaced ==
    /\ call.op = "generate_client_config"
    /\ call.result.used_setup_wizard
    /\ Len(call.dns_upstreams) = 2
    /\ \E i \in 1..Len(call.wenv.content) : call.wenv.content[i].key = "dns_upstreams"

(***************************************************************************)
(* SpecEndpoint: generate_endpoint_config called under every combination   *)
(* of the three endpoint settings and every behaviour of the command.      *)
(***************************************************************************)
EndpointConfigs ==
    {BotConfig("http://reload", vpn_config, hosts_config, endpoint_public_address,
               "rules.toml") :
         vpn_config \in {None, "vpn.toml"}, hosts_config \in {None, "hosts.toml"},
         endpoint_public_address \in {None, "198.51.100.1"}}

InitEndpoint ==
    /\ config \in EndpointConfigs
    /\ store = <<>>
    /\ states = EmptyDict
    /\ messages = EmptyDict
    /\ task = [t \in 1..MaxTasks |-> Free]
    /\ call = NoCall
    /\ serial = <<>>
    /\ escaped = NoEscape
    /\ stats = Off
    /\ client_toml = NoFile

CallGenerateEndpointConfig(username, genv) ==
    /\ call' = [op |-> "generate_endpoint_config", username |-> username, genv |-> genv,
                result |-> generate_endpoint_config(config, username, genv)]
    /\ UNCHANGED <<config, store, states, messages, task, serial, escaped, stats, client_toml>>

NextEndpoint ==
    \E username \in Names, genv \in GenEnvs : CallGenerateEndpointConfig(username, genv)

SpecEndpoint == InitEndpoint /\ [][NextEndpoint]_vars

EndpointSettingsSet ==
    /\ config.vpn_config # None
    /\ config.hosts_config # None
    /\ config.endpoint_public_address # None

\* C17: generate_endpoint_config fails with the command error (RuntimeError,
\* the kind that _send_configs reports as a generation error) both when the
\* command exits non-zero and when it exceeds the timeout, and writes no
\* endpoint file in either case; and the command is not invoked unless
\* vpn_config, hosts_config and endpoint_public_address are all set.
CommandErrorContract ==
    call.op = "generate_endpoint_config" =>
        /\ (/\ EndpointSettingsSet
            /\ call.genv.vpn = "ok"
            /\ call.genv.cmd \in {"exit1", "TimeoutExpired"})
           => /\ call.result.raised = "RuntimeError"
              /\ ~call.result.written
        /\ call.result.invoked => EndpointSettingsSet

(***************************************************************************)
(* SpecUsername: the administrator presses add_user and sends a message,   *)
(* typed or forwarded, from which the username is taken.                   *)
(***************************************************************************)
UsernameMessages ==
    {Message(<<"@", "a">>, NoForward),
     Message(<<" ", "a", " ">>, NoForward),
     Message(<<"@", "@", "a">>, NoForward),
     Message(<<"@">>, NoForward),
     Message(<<" ">>, NoForward),
     Message(<<"a", " ", "b">>, NoForward),
     Message(<<"a", "\t", "b">>, NoForward),
     Message(<<"a", "\n", "b">>, NoForward),
     Message(NoneStr, Forward(2, <<"b">>)),
     Message(NoneStr, Forward(7, NoneStr))}

InitUsername == InitBot(1, Off) /\ config = FullConfig /\ store = <<>>

NextUsername ==
    \/ \E chat_id \in Chats :
           Callback(chat_id, 1, Button("add_user"), NominalEnv, NominalGenEnv)
    \/ \E chat_id \in Chats, message \in UsernameMessages :
           Text(chat_id, 1, message, NominalEnv, NominalGenEnv, "x")
    \/ \E t \in DOMAIN task : Resume(t, NominalGenEnv)

SpecUsername == InitUsername /\ [][NextUsername]_vars

HasWhitespace(text) == \E i \in 1..Len(text) : text[i] \in {" ", "\t", "\n"}

\* The free text without the whitespace around it and without one leading "@".
Cleaned(text) ==
    IF strip(text) # <<>> /\ Head(strip(text)) = "@" THEN Tail(strip(text))
    ELSE strip(text)

Rejected(message) ==
    /\ ~message.forward_from.present
    /\ Cleaned(message.text) = <<>> \/ HasWhitespace(Cleaned(message.text))

Taken(message) ==
    IF message.forward_from.present /\ message.forward_from.username # NoneStr
    THEN message.forward_from.username
    ELSE IF message.forward_from.present
    THEN <<"u", "s", "e", "r", "_", ToString(message.forward_from.id)>>
    ELSE Cleaned(message.text)

\* C18: in mode add_user the username taken from the next message is the
\* forwarded sender's username, or user_<id> when the sender has none, or the
\* free text without surrounding whitespace and one leading "@".  Free text
\* that is then empty or holds a space, a tab or a line break is rejected: no
\* user is added and the chat stays in mode add_user.  A user that is added
\* has the username taken, non-empty and free of whitespace.
UsernameContract ==
    [][\A t \in DOMAIN task :
          (/\ task[t] = Free
           /\ task'[t] # Free
           /\ task'[t].ev.kind = "text"
           /\ task'[t].ev.mode = "add_user")
          => IF Rejected(task'[t].ev.message)
             THEN /\ store' = store
                  /\ mode_of(states', task'[t].chat) = "add_user"
                  /\ task'[t].prog = <<message_answer("cannot determine the username", <<>>)>>
             ELSE serial' # serial =>
                      /\ serial' = Append(serial,
                                          ClientCredential(Taken(task'[t].ev.message),
                                                           generate_password("x")))
                      /\ Taken(task'[t].ev.message) # <<>>
                      /\ ~HasWhitespace(Taken(task'[t].ev.message))]_vars

(***************************************************************************)
(* SpecMyConfig: my_config pressed by the administrator, by another member *)
(* and by a member who has no username, under every behaviour of the       *)
(* config generator.                                                       *)
(***************************************************************************)
Members == {1, 2, 3}

InitMyConfig == InitBot(1, Off) /\ config = FullConfig

NextMyConfig ==
    \/ \E chat_id \in Chats, user_id \in Members : Start(chat_id, user_id)
    \/ \E chat_id \in Chats, user_id \in Members :
           Callback(chat_id, user_id, Button("my_config"), NominalEnv, NominalGenEnv)
    \/ \E t \in DOMAIN task : \E genv \in GenEnvsOfTask(t) : Resume(t, genv)

SpecMyConfig == InitMyConfig /\ [][NextMyConfig]_vars

IsMyConfig(ev) == ev.kind = "callback" /\ ev.data = Button("my_config")

\* C19: a my_config press by any identity generates and sends a config for
\* that identity's own username only; its handler ends on the re-rendered
\* menu with the chat's mode cleared; and an identity without a username gets
\* the "no username" message, whatever the external commands would do.
MyConfigContract ==
    [][\A t \in DOMAIN task :
          /\ (task[t] = Free /\ task'[t] # Free /\ IsMyConfig(task'[t].ev))
             => /\ Len(task'[t].prog) = 5
                /\ Tail(task'[t].prog) =
                       <<SendConfigs(from_user(task'[t].uid).username),
                         show_menu(task'[t].uid \in config.admin_ids),
                         ClearState, callback_answer("")>>
          /\ (Running(t) /\ IsMyConfig(task[t].ev))
             => /\ task'[t] # Free =>
                       \A i \in 1..Len(task'[t].prog) :
                           task'[t].prog[i].text \in {"client config", "connection profile"}
                           => task'[t].prog[i].arg = <<from_user(task[t].uid).username>>
                /\ task'[t] = Free =>
                       /\ escaped'.exc = None
                       /\ task[t].prog = <<callback_answer("")>>
                       /\ mode_of(states', task[t].chat) = None
                /\ (/\ from_user(task[t].uid).username = NoneStr
                    /\ Len(task[t].prog) >= 2
                    /\ task[t].prog[2].op = "_send_configs")
                   => /\ task'[t] # Free
                      /\ Head(task'[t].prog).text = "no username"]_vars

(***************************************************************************)
(* SpecOrder: the user-management API on the stores of SpecUM and on a     *)
(* store that load_credentials cannot read (the file that add_user leaves  *)
(* when given a username with a line break).                               *)
(***************************************************************************)
UnreadableStore ==
    save_credentials(<<ClientCredential(<<"a", "\n", "b">>, generate_password("x"))>>)

InitOrder ==
    /\ config \in Configs
    /\ store \in InitStores \cup {UnreadableStore}
    /\ states = EmptyDict
    /\ messages = EmptyDict
    /\ task = [t \in 1..MaxTasks |-> Free]
    /\ call = NoCall
    /\ serial = <<>>
    /\ escaped = NoEscape
    /\ stats = Off
    /\ client_toml = NoFile

SpecOrder == InitOrder /\ [][NextUM]_vars

\* C20: a successful add_user or delete_user writes the file first and then
\* triggers the reload, and one reload takes effect: the hot reload, or else
\* the restart.  A mutation that fails as a duplicate, as a user not found or
\* on an unreadable store writes nothing, posts nothing and restarts nothing.
MutationOrder ==
    call.op \in {"add_user", "delete_user"} =>
        /\ call.raised = None =>
               /\ call.saved
               /\ call.effects \in {<<"save_credentials", "POST">>,
                                    <<"save_credentials", "POST", "systemctl restart">>,
                                    <<"save_credentials", "systemctl restart">>}
               /\ call.used_hot_reload # call.restarted
               /\ call.used_hot_reload <=> call.effects = <<"save_credentials", "POST">>
        /\ call.raised = "ValueError" =>
               /\ call.effects = <<>>
               /\ ~call.saved /\ ~call.posted /\ ~call.restarted
               /\ store = call.before

\* A user added with the POST refused and the service restarted.
SavedThenRestarted ==
    /\ call.op = "add_user"
    /\ call.raised = None
    /\ call.effects = <<"save_credentials", "POST", "systemctl restart">>
    /\ Len(store) = 2

\* A mutation refused on the store that cannot be read.
RefusedOnUnreadableStore ==
    /\ call.op \in {"add_user", "delete_user"}
    /\ call.msg = "TOMLDecodeError"
    /\ store = UnreadableStore

(***************************************************************************)
(* Properties of list navigation, under Spec.                              *)
(***************************************************************************)
pending_of(sts, chat_id) ==
    IF chat_id \in DOMAIN sts THEN sts[chat_id].pending_username ELSE NoneStr

IsPage(ev) ==
    /\ ev.kind = "callback"
    /\ ev.data.colon
    /\ ev.data.head \in {"delete_user_page", "admin_config_page"}

Clamped(n, total_pages) ==
    IF n < 1 THEN 1 ELSE IF n > total_pages THEN total_pages ELSE n

\* The keyboard of page n of the users of the file: their buttons, the
\* neighbouring pages, and the way back.
PageKeyboard(file, n, action_prefix, page_prefix) ==
    LET names == list_users(file).usernames
        total_pages == (Len(names) + USER_LIST_PAGE_SIZE - 1) \div USER_LIST_PAGE_SIZE
        page == Clamped(n, total_pages)
    IN  {Data(action_prefix, TRUE, names[i]) :
            i \in {j \in 1..Len(names) : (j - 1) \div USER_LIST_PAGE_SIZE = page - 1}}
        \cup {Data(page_prefix, TRUE, <<ToString(q)>>) :
                 q \in {page - 1, page + 1} \cap 1..total_pages}
        \cup {Button("back_to_menu")}

\* C21: a delete_user_page:<n> or admin_config_page:<n> callback renders the
\* list it belongs to at page n clamped to [1, total_pages], and is done once
\* the rendering returns; from its start to its end the chat's mode, its
\* pending_username and the credential file stay as they were, whatever the
\* mode of the chat.
NavigationKeepsMode ==
    [][\A t \in DOMAIN task :
          /\ (task[t] = Free /\ task'[t] # Free /\ IsPage(task'[t].ev)) =>
                 /\ mode_of(states', task'[t].chat) = mode_of(states, task'[t].chat)
                 /\ pending_of(states', task'[t].chat) = pending_of(states, task'[t].chat)
                 /\ store' = store
                 /\ Len(task'[t].prog) = 1
                 /\ Head(task'[t].prog).op \in
                        {"bot.edit_message_text", "upsert.send_message"}
                 /\ store # <<>> =>
                        Head(task'[t].prog).kb =
                            IF task'[t].ev.data.head = "delete_user_page"
                            THEN PageKeyboard(store, parse_page(task'[t].ev.data),
                                              "delete_user", "delete_user_page")
                            ELSE PageKeyboard(store, parse_page(task'[t].ev.data),
                                              "admin_config_select", "admin_config_page")
                 /\ store = <<>> =>
                        Head(task'[t].prog).kb =
                            menu_keyboard(task'[t].uid \in config.admin_ids)
          /\ (Running(t) /\ IsPage(task[t].ev) /\ task'[t] = Free) =>
                 /\ escaped'.exc = None
                 /\ mode_of(states', task[t].chat) = task[t].ev.mode
                 /\ pending_of(states', task[t].chat) = pending_of(states, task[t].chat)
                 /\ store' = store]_vars

\* Page 2 of a list of two users asked for by a chat in mode add_user: the
\* list is rendered at page 1 and the chat is still in mode add_user.
NavigatedWhileAwaitingUsername ==
    \E t \in DOMAIN task :
        /\ Running(t)
        /\ IsPage(task[t].ev)
        /\ task[t].ev.data.arg = <<"2">>
        /\ task[t].ev.mode = "add_user"
        /\ mode_of(states, task[t].chat) = "add_user"
        /\ Len(store) = 2

(***************************************************************************)
(* Who can change the store and who can read it, under Spec.               *)
(***************************************************************************)
\* C22: the credential file changes only in the handling of an event whose
\* sender is in the admin set (the handler of the event either goes on to its
\* Bot API calls or is left by an exception of the reload).
OnlyAdminsMutate ==
    [][store' # store =>
          \/ escaped'.exc # None
          \/ \E t \in DOMAIN task :
                 /\ task[t] = Free
                 /\ task'[t] # Free
                 /\ task'[t].uid \in config.admin_ids]_vars

\* C23: a callback sent by an identity outside the admin set starts a handler
\* that generates configs for the sender's own username only, and that renders
\* no list of usernames (no keyboard with a button per user).
NonAdminSeesOwnOnly ==
    [][\A t \in DOMAIN task :
          (/\ task[t] = Free
           /\ task'[t] # Free
           /\ task'[t].ev.kind = "callback"
           /\ task'[t].uid \notin config.admin_ids)
          => \A i \in 1..Len(task'[t].prog) :
                 /\ task'[t].prog[i].op = "_send_configs" =>
                        task'[t].prog[i].arg = <<from_user(task'[t].uid).username>>
                 /\ \A b \in task'[t].prog[i].kb :
                        ~(b.colon /\ b.head \in {"delete_user", "admin_config_select"})]_vars

(***************************************************************************)
(* SpecConcurrent: the administrator uses the bot in two chats, the        *)
(* handlers in flight together.  bot.send_document is given the path of    *)
(* the client config (FSInputFile), and the file is read while the call is *)
(* awaited: at any moment between the call and its return.                 *)
(***************************************************************************)
TwoChats == {101, 102}

ConcurrentData ==
    {Button("add_user"), Button("my_config"),
     Data("admin_config_select", TRUE, <<"a">>), Data("admin_config_select", TRUE, <<"b">>)}

\* The handler awaits the send of the client config, the file not yet read.
ReadPending(t) ==
    /\ Running(t)
    /\ Head(task[t].prog).op = "bot.send_document"
    /\ Head(task[t].prog).text = "client config"
    /\ Len(Head(task[t].prog).arg) = 1

\* The Bot API client reads the file at the path it was given; arg becomes
\* <<the username the config was generated for, the username of the config read>>.
ReadDocument(t) ==
    /\ ReadPending(t)
    /\ task' = [task EXCEPT ![t].prog =
                   <<[Head(task[t].prog) EXCEPT
                         !.arg = Append(@, client_toml.username)]>>
                   \o Tail(task[t].prog)]
    /\ escaped' = NoEscape
    /\ UNCHANGED <<config, store, states, messages, call, serial, stats, client_toml>>

InitConcurrent == InitBot(MaxTasks, Off) /\ config = FullConfig /\ store = <<>>

NextConcurrent ==
    \/ \E chat_id \in TwoChats, data \in ConcurrentData :
           Callback(chat_id, 1, data, NominalEnv, NominalGenEnv)
    \/ \E t \in DOMAIN task : ~ReadPending(t) /\ Resume(t, NominalGenEnv)
    \/ \E t \in DOMAIN task : ReadDocument(t)

SpecConcurrent == InitConcurrent /\ [][NextConcurrent]_vars

\* C24: the client config a handler sends is the config of the username the
\* handler generated it for, whatever the other handlers do meanwhile.
SentConfigIsRequested ==
    \A t \in DOMAIN task :
        (/\ Running(t)
         /\ Head(task[t].prog).op = "bot.send_document"
         /\ Head(task[t].prog).text = "client config"
         /\ Len(Head(task[t].prog).arg) = 2)
        => Head(task[t].prog).arg[2] = Head(task[t].prog).arg[1]

(***************************************************************************)
(* The store after the add-user flow, under SpecUsername.                  *)
(***************************************************************************)
\* C25: whatever usernames the add-user flow has accepted, load_credentials
\* reads the file, and returns the records that were added, unchanged.
StoreStaysLoadable ==
    /\ load_credentials(store).raised = None
    /\ load_credentials(store).clients = serial

\* C26: a chat leaves mode add_user only in the handling of an event that
\* arrived while the chat was in that mode: when such an event is dispatched,
\* or in a later step of its handler.  A handler that started before add_user
\* was pressed never ends the mode.
ModeOutlivesEarlierHandlers ==
    [][\A c \in TwoChats :
          (mode_of(states, c) = "add_user" /\ mode_of(states', c) # "add_user")
          => \E t \in DOMAIN task :
                 \/ /\ task[t] = Free
                    /\ task'[t] # Free
                    /\ task'[t].chat = c
                 \/ /\ Running(t)
                    /\ task'[t] # task[t]
                    /\ task[t].chat = c
                    /\ task[t].ev.mode = "add_user"]_vars

(***************************************************************************)
(* The modes of a chat, under Spec.                                        *)
(***************************************************************************)
\* C27: no chat is ever in mode admin_config, and while no handler is running
\* every chat is without a mode or in mode add_user (mode my_config ends with
\* the handler that set it).
ModeBetweenEvents ==
    \A c \in Chats :
        /\ mode_of(states, c) # "admin_config"
        /\ (\A t \in DOMAIN task : task[t] = Free)
               => mode_of(states, c) \in {None, "add_user"}

(***************************************************************************)
(* The place of the dns_upstreams line, under SpecGen.                     *)
(***************************************************************************)
IsHeader(line) == line.key \in {"[endpoint]", "[listener]", "[listener.tun]"}

\* C28: in the content that generate_client_config returns for a non-empty
\* DNS override, no section header precedes the dns_upstreams line: the line
\* is a top-level key, on the wizard path and on the template path.
DnsLineTopLevel ==
    (/\ call.op = "generate_client_config"
     /\ call.dns_upstreams # <<>>
     /\ call.result.returned)
    => \A i \in 1..Len(call.result.content) :
           call.result.content[i].key = "dns_upstreams"
           => \A j \in 1..(i - 1) : ~IsHeader(call.result.content[j])

(***************************************************************************)
(* What changes the credential file, under Spec.                           *)
(***************************************************************************)
\* C29: the credential file changes only in the step that handles a username
\* sent in mode add_user or a delete_user:<name> press, and only when the add
\* or the delete succeeds: the handler goes on to report "user created" or
\* "user deleted".  Every other step, and every add or delete that fails,
\* leaves the file as it was.
StoreFrame ==
    [][store' # store =>
          /\ escaped'.exc = None
          /\ \E t \in DOMAIN task :
                 /\ task[t] = Free
                 /\ task'[t] # Free
                 /\ \/ /\ task'[t].ev.kind = "text"
                       /\ task'[t].ev.mode = "add_user"
                       /\ Head(task'[t].prog).text = "user created"
                    \/ /\ task'[t].ev.kind = "callback"
                       /\ task'[t].ev.data.colon
                       /\ task'[t].ev.data.head = "delete_user"
                       /\ Head(task'[t].prog).text = "user deleted"]_vars

====
